---- MODULE Spec2Model ----
(***************************************************************************)
(* A model of the near-Earth-object database: models.py (NearEarthObject,  *)
(* CloseApproach), database.py (NEODatabase: linking constructor, lookups, *)
(* the lazy query generator) and filters.py (AttributeFilter and its       *)
(* subclasses, create_filters, limit).                                     *)
(*                                                                         *)
(* Objects are identified by their position in the list that holds them:   *)
(* a reference to a NearEarthObject is its index in neos, a reference to a *)
(* CloseApproach is its index in approaches.  An optional Python value is  *)
(* a sequence of length at most one: None is <<>>, a present v is <<v>>.   *)
(***************************************************************************)
EXTENDS Integers, Sequences, FiniteSets

VARIABLES
    neos,        \* NEODatabase._neos: the list of NearEarthObject
    approaches,  \* NEODatabase._approaches: the list of CloseApproach
    data_map,    \* NEODatabase._data_map: designation -> NearEarthObject
    phase,       \* "unlinked" (before the constructor), "linked" (it returned),
                 \* "KeyError" (it raised)
    ret,         \* the last lookup call and what it returned
    seq,         \* a plain list handed to iter() and limit()
    gen,         \* the iterator under limit(): the generator of query(), or
                 \* the iterator of seq
    lim,         \* the call of limit() and the islice object it made, if any
    out,         \* the items the consumer has received, in order
    last,        \* how the consumer's latest next() ended
    requests,    \* the number of next() calls the consumer has made
    pulls,       \* the number of next() calls made on the iterator gen
    evaluated,   \* the approaches some filter has been called on
    args,        \* the keyword arguments of create_filters
    made,        \* what create_filters returned
    gen2,        \* the generator of a second query() call
    out2,        \* the items received from the second generator, in order
    last2        \* how the latest next() on the second generator ended

store == <<neos, approaches, data_map, phase>>
stream == <<seq, gen, lim, out, last, requests, pulls, evaluated>>
factory == <<args, made>>
second == <<gen2, out2, last2>>
vars == <<store, ret, stream, factory, second>>

-----------------------------------------------------------------------------
(* Bounds of the model. *)

\* The longest lists of NEOs and of close approaches handed to the constructor.
MaxNeos == 2
MaxApproaches == 2
\* The longest plain list handed to limit.
MaxLen == 3
\* The largest n handed to limit.
MaxLimit == 3
\* The most next() calls the consumer makes on one iterator.
MaxRequests == 5

-----------------------------------------------------------------------------
(* Python values. *)

None == <<>>
Some(v) == <<v>>
IsNone(o) == o = <<>>
Val(o) == o[1]

\* float('nan'): the default diameter, distance and velocity.
NaN == -1

\* The bools True and False, which Python compares as the integers 1 and 0.
True == 1
False == 0

\* The primary designations and names the inputs are drawn from; two of the
\* designations, and two of the names, differ only in letter case.
Designations == {"2015 AB", "2015 ab", "433"}
Names == {None, Some("Alpha"), Some("alpha")}

\* The lists of at most max items of S.
SeqsUpTo(S, max) == UNION {[1..n -> S] : n \in 0..max}

Range(s) == {s[i] : i \in DOMAIN s}

-----------------------------------------------------------------------------
(* models.py *)

\* NearEarthObject(pdes, name, diameter, hazardous)
NearEarthObject(pdes, name, diameter, hazardous) ==
    [designation |-> pdes, name |-> name, diameter |-> diameter,
     hazardous |-> hazardous, approaches |-> <<>>]

\* CloseApproach(pdes, time, distance, velocity); time stands for the parsed
\* datetime, of which the model keeps the calendar date as a day number.
CloseApproach(pdes, time, distance, velocity) ==
    [designation |-> pdes, time |-> time, distance |-> distance,
     velocity |-> velocity, neo |-> None]

\* bool(neo): NearEarthObject defines neither __bool__ nor __len__, so every
\* instance is truthy.
Truthy(neo) == TRUE

-----------------------------------------------------------------------------
(* database.py: NEODatabase.__init__ *)

\* The first loop: _data_map[neo.designation] = neo for each neo in order, so
\* the last NEO of a designation is the one the map keeps.
BuildDataMap(ns) ==
    [d \in {ns[i].designation : i \in DOMAIN ns} |->
        CHOOSE i \in DOMAIN ns :
            /\ ns[i].designation = d
            /\ \A j \in DOMAIN ns : ns[j].designation = d => j <= i]

\* A variant of the loop body that skips an approach whose designation is not
\* in the map (dict.get in place of the subscript).
LinkStepSkipMissing(st, k) ==
    LET d == st.approaches[k].designation IN
    IF d \notin DOMAIN st.data_map THEN st
    ELSE LET n == st.data_map[d] IN
         [st EXCEPT !.approaches[k].neo = Some(n),
                    !.neos[n].approaches = Append(@, k)]

\* A variant of the loop body that sets approach.neo and forgets the append.
LinkStepNoAppend(st, k) ==
    LET d == st.approaches[k].designation IN
    IF d \notin DOMAIN st.data_map THEN [st EXCEPT !.raised = Some("KeyError")]
    ELSE [st EXCEPT !.approaches[k].neo = Some(st.data_map[d])]

\* The body of the second loop for the k-th approach: the subscript
\* _data_map[designation] raises KeyError for a missing key; otherwise the
\* approach and the NEO are linked to each other.
LinkStep(st, k) ==
    LET d == st.approaches[k].designation IN
    IF d \notin DOMAIN st.data_map THEN [st EXCEPT !.raised = Some("KeyError")]
    ELSE LET n == st.data_map[d] IN
         IF Truthy(st.neos[n])
         THEN [st EXCEPT !.approaches[k].neo = Some(n),
                         !.neos[n].approaches = Append(@, k)]
         ELSE st

\* The second loop from the k-th approach on; an exception ends it.
RECURSIVE LinkFrom(_, _)
LinkFrom(st, k) ==
    IF k > Len(st.approaches) \/ ~IsNone(st.raised) THEN st
    ELSE LinkFrom(LinkStep(st, k), k + 1)

\* The constructor as a whole.
Linked(ns, as) ==
    LinkFrom([neos |-> ns, approaches |-> as, data_map |-> BuildDataMap(ns),
              raised |-> None], 1)

Construct ==
    /\ phase = "unlinked"
    /\ LET st == Linked(neos, approaches) IN
       /\ neos' = st.neos
       /\ approaches' = st.approaches
       /\ data_map' = st.data_map
       /\ phase' = IF IsNone(st.raised) THEN "linked" ELSE Val(st.raised)
    /\ UNCHANGED <<second, ret, stream, factory>>

-----------------------------------------------------------------------------
(* database.py: the lookups *)

\* str.lower on the designations of the model.
Lower(s) == IF s = "2015 AB" THEN "2015 ab" ELSE s

\* A variant of the scan that compares designations ignoring case.
FirstByDesignationIgnoringCase(ns, designation) ==
    LET hits == {i \in DOMAIN ns : Lower(ns[i].designation) = Lower(designation)} IN
    IF hits = {} THEN None
    ELSE Some(CHOOSE i \in hits : \A j \in hits : i <= j)

\* for neo in self._neos: if neo.designation == designation: return neo
\* and None after the loop.
FirstByDesignation(ns, designation) ==
    LET hits == {i \in DOMAIN ns : ns[i].designation = designation} IN
    IF hits = {} THEN None
    ELSE Some(CHOOSE i \in hits : \A j \in hits : i <= j)

\* for neo in self._neos: if neo.name == name: return neo
\* and None after the loop.  None == None is True in Python.
FirstByName(ns, name) ==
    LET hits == {i \in DOMAIN ns : ns[i].name = name} IN
    IF hits = {} THEN None
    ELSE Some(CHOOSE i \in hits : \A j \in hits : i <= j)

get_neo_by_designation(designation) ==
    /\ phase = "linked"
    /\ ret' = [op |-> "get_neo_by_designation", arg |-> Some(designation),
               value |-> FirstByDesignation(neos, designation)]
    /\ UNCHANGED <<second, store, stream, factory>>

get_neo_by_name(name) ==
    /\ phase = "linked"
    /\ ret' = [op |-> "get_neo_by_name", arg |-> name,
               value |-> FirstByName(neos, name)]
    /\ UNCHANGED <<second, store, stream, factory>>

-----------------------------------------------------------------------------
(* filters.py: AttributeFilter and its subclasses *)

\* A filter is an instance of AttributeFilter or of a subclass, built from a
\* 2-argument operator of the operator module and a reference value.
Filter(cls, op, value) == [cls |-> cls, op |-> op, value |-> value]

\* What a call returns or raises.  The comparators return a bool (b); a
\* subtraction returns a number (v): a timedelta in days for dates, a float
\* or an int otherwise, or the float nan.
Raised(exc) == [tag |-> "raise", exc |-> exc, b |-> FALSE, v |-> 0]
Bool(b) == [tag |-> "bool", exc |-> "", b |-> b, v |-> 0]
Number(v) == [tag |-> "number", exc |-> "", b |-> FALSE, v |-> v]
NotANumber == [tag |-> "nan", exc |-> "", b |-> FALSE, v |-> 0]

\* x is False: the bool False itself, no other falsy value.
IsFalse(r) == r.tag = "bool" /\ r.b = FALSE

\* bool(x) of a returned value: a number is falsy exactly when it is zero,
\* and nan is truthy.
IsTruthy(r) ==
    \/ r.tag = "bool" /\ r.b
    \/ r.tag = "number" /\ r.v # 0
    \/ r.tag = "nan"

\* operator.eq, operator.ge, operator.le on floats, dates and bools: every
\* comparison with NaN is False.  Dates and bools are never NaN.
Compare(op, a, b) ==
    IF a = NaN \/ b = NaN THEN FALSE
    ELSE CASE op = "eq" -> a = b
           [] op = "ge" -> a >= b
           [] op = "le" -> a <= b

\* operator.sub: the difference, nan when an operand is nan.
Subtract(a, b) == IF a = NaN \/ b = NaN THEN NotANumber ELSE Number(a - b)

\* cls.get(approach): the attribute a filter class reads.  The base class
\* raises UnsupportedCriterionError; reading through approach.neo raises
\* AttributeError while approach.neo is None.
GetAttribute(cls, ns, a) ==
    CASE cls = "AttributeFilter" -> [raised |-> Some("UnsupportedCriterionError"), v |-> 0]
      [] cls = "DateFilter" -> [raised |-> None, v |-> a.time]
      [] cls = "DistanceFilter" -> [raised |-> None, v |-> a.distance]
      [] cls = "VelocityFilter" -> [raised |-> None, v |-> a.velocity]
      [] cls = "DiameterFilter" ->
            IF IsNone(a.neo) THEN [raised |-> Some("AttributeError"), v |-> 0]
            ELSE [raised |-> None, v |-> ns[Val(a.neo)].diameter]
      [] cls = "HazardousFilter" ->
            IF IsNone(a.neo) THEN [raised |-> Some("AttributeError"), v |-> 0]
            ELSE [raised |-> None, v |-> ns[Val(a.neo)].hazardous]

\* AttributeFilter.__call__: self.op(self.get(approach), self.value)
FilterCall(f, ns, a) ==
    LET got == GetAttribute(f.cls, ns, a) IN
    IF ~IsNone(got.raised) THEN Raised(Val(got.raised))
    ELSE IF f.op = "sub" THEN Subtract(got.v, f.value)
    ELSE Bool(Compare(f.op, got.v, f.value))

-----------------------------------------------------------------------------
(* filters.py: create_filters *)

\* A variant that tests the truth of hazardous, not its presence.
AppendHazardousIfTruthy(filters, hazardous) ==
    IF ~IsNone(hazardous) /\ Val(hazardous) # False
    THEN Append(filters, Filter("HazardousFilter", "eq", Val(hazardous)))
    ELSE filters

\* if x is not None: filters.append(cls(op, x))
AppendIfPresent(filters, cls, op, x) ==
    IF ~IsNone(x) THEN Append(filters, Filter(cls, op, Val(x))) ELSE filters

\* A variant that appends an instance of the base class, not of the subclass.
AppendHazardousAsBase(filters, hazardous) ==
    AppendIfPresent(filters, "AttributeFilter", "eq", hazardous)

\* if hazardous is not None: filters.append(HazardousFilter(operator.eq, hazardous))
AppendHazardous(filters, hazardous) ==
    AppendIfPresent(filters, "HazardousFilter", "eq", hazardous)

create_filters(kw) ==
    LET f0 == <<>>
        f1 == AppendIfPresent(f0, "DateFilter", "eq", kw.date)
        f2 == AppendIfPresent(f1, "DateFilter", "ge", kw.start_date)
        f3 == AppendIfPresent(f2, "DateFilter", "le", kw.end_date)
        f4 == AppendIfPresent(f3, "DistanceFilter", "ge", kw.distance_min)
        f5 == AppendIfPresent(f4, "DistanceFilter", "le", kw.distance_max)
        f6 == AppendIfPresent(f5, "VelocityFilter", "ge", kw.velocity_min)
        f7 == AppendIfPresent(f6, "VelocityFilter", "le", kw.velocity_max)
        f8 == AppendIfPresent(f7, "DiameterFilter", "ge", kw.diameter_min)
        f9 == AppendIfPresent(f8, "DiameterFilter", "le", kw.diameter_max)
    IN  AppendHazardous(f9, kw.hazardous)

CreateFilters ==
    /\ IsNone(made)
    /\ made' = Some(create_filters(args))
    /\ UNCHANGED <<second, store, ret, stream, args>>

-----------------------------------------------------------------------------
(* database.py: NEODatabase.filter and the generator of NEODatabase.query *)

\* A variant of filter that passes an approach when some filter accepts it,
\* so that an empty collection passes nothing.
RECURSIVE filterAnyFrom(_, _, _, _)
filterAnyFrom(filters, i, ns, a) ==
    IF i > Len(filters) THEN Bool(FALSE)
    ELSE LET r == FilterCall(filters[i], ns, a) IN
         IF r.tag = "raise" THEN r
         ELSE IF IsTruthy(r) THEN Bool(TRUE)
         ELSE filterAnyFrom(filters, i + 1, ns, a)

\* A variant of filter that returns True as soon as the first filter has not
\* rejected the approach, without calling the filters after it.
filterFirstFrom(filters, i, ns, a) ==
    IF i > Len(filters) THEN Bool(TRUE)
    ELSE LET r == FilterCall(filters[i], ns, a) IN
         IF r.tag = "raise" THEN r
         ELSE IF IsFalse(r) THEN Bool(FALSE)
         ELSE Bool(TRUE)

\* for filter in filters: if filter(approach) is False: return False
\* and True after the loop, from the i-th filter on.  A filter that raises
\* ends the loop with its exception.
RECURSIVE filterFrom(_, _, _, _)
filterFrom(filters, i, ns, a) ==
    IF i > Len(filters) THEN Bool(TRUE)
    ELSE LET r == FilterCall(filters[i], ns, a) IN
         IF r.tag = "raise" THEN r
         ELSE IF IsFalse(r) THEN Bool(FALSE)
         ELSE filterFrom(filters, i + 1, ns, a)

\* NEODatabase.filter(approach, filters)
filter(filters, ns, a) == filterFrom(filters, 1, ns, a)

\* An iterator: the generator object of query (kind "query", over the
\* approaches) or iter(seq) (kind "list").  cursor is the position of the
\* item the loop took last; state is "created" before the first next(),
\* "suspended" at a yield, "done" after the loop ended, "raised" after an
\* exception left the generator.
NoIterator == [kind |-> "none", filters |-> <<>>, cursor |-> 0, state |-> "done"]
Generator(filters) ==
    [kind |-> "query", filters |-> filters, cursor |-> 0, state |-> "created"]
ListIterator == [kind |-> "list", filters |-> <<>>, cursor |-> 0, state |-> "created"]

\* What one next() on an iterator gives: the iterator afterwards, the item
\* (or None with the exception that ended the call) and the approaches that
\* filters were called on.
Step(g, item, exc, touched) ==
    [gen |-> g, item |-> item, exc |-> exc, touched |-> touched]

\* The for loop of query from the k-th approach on, up to the next yield:
\*     for approach in self._approaches:
\*         if self.filter(approach, filters): yield approach
RECURSIVE Resume(_, _, _, _, _)
Resume(g, k, ns, as, touched) ==
    IF k > Len(as)
    THEN Step([g EXCEPT !.cursor = Len(as), !.state = "done"],
              None, "StopIteration", touched)
    ELSE LET r == filter(g.filters, ns, as[k])
             t == IF g.filters = <<>> THEN touched ELSE touched \cup {k}
         IN  IF r.tag = "raise"
             THEN Step([g EXCEPT !.cursor = k, !.state = "raised"], None, r.exc, t)
             ELSE IF r.b
             THEN Step([g EXCEPT !.cursor = k, !.state = "suspended"], Some(k), "", t)
             ELSE Resume(g, k + 1, ns, as, t)

\* next() on the iterator g.  A finished generator raises StopIteration.
IteratorNext(g, ns, as, items) ==
    IF g.state \in {"done", "raised"} THEN Step(g, None, "StopIteration", {})
    ELSE IF g.kind = "query" THEN Resume(g, g.cursor + 1, ns, as, {})
    ELSE IF g.cursor < Len(items)
         THEN Step([g EXCEPT !.cursor = @ + 1, !.state = "suspended"],
                   Some(items[g.cursor + 1]), "", {})
         ELSE Step([g EXCEPT !.state = "done"], None, "StopIteration", {})

\* A variant of query that filters every approach when it is called and
\* returns an iterator over the matches.
EagerQuery(filters, ns, as) ==
    [gen |-> Generator(filters),
     touched |-> IF filters = <<>> THEN {} ELSE DOMAIN as]

\* A variant of query that links the store again when it is called, so that
\* each NEO's list gains its approaches a second time.
queryRelinking(filters) ==
    /\ phase = "linked"
    /\ gen.kind = "none"
    /\ gen' = Generator(filters)
    /\ neos' = Linked(neos, approaches).neos
    /\ approaches' = Linked(neos, approaches).approaches
    /\ UNCHANGED <<second, data_map, phase, ret, factory, seq, lim, out, last,
                   requests, pulls, evaluated>>

\* Calling query(filters) runs none of its body: it returns the generator.
Query(filters, ns, as) == [gen |-> Generator(filters), touched |-> {}]

query(filters) ==
    /\ phase = "linked"
    /\ gen.kind = "none"
    /\ LET q == Query(filters, neos, approaches) IN
       /\ gen' = q.gen
       /\ evaluated' = evaluated \cup q.touched
    /\ UNCHANGED <<second, store, ret, factory, seq, lim, out, last, requests, pulls>>

\* iter(seq): the plain sequence limit is applied to.
iter ==
    /\ gen.kind = "none"
    /\ gen' = ListIterator
    /\ UNCHANGED <<second, store, ret, factory, seq, lim, out, last, requests, pulls,
                   evaluated>>

-----------------------------------------------------------------------------
(* database.py: a second call of query on the same store *)

\* A variant in which the generators share one iterator over the approaches:
\* a generator goes on from wherever the other one has got to.
TraversalNextSharedCursor(own, other, ns, as) ==
    IteratorNext([own EXCEPT !.cursor = IF other.cursor > @ THEN other.cursor ELSE @],
                 ns, as, <<>>)

\* next() on one of two generator objects of query.  Each call of query
\* makes a generator with a frame of its own, whose for loop iterates over
\* self._approaches with a list iterator of its own: the other generator is
\* not read.
TraversalNext(own, other, ns, as) == IteratorNext(own, ns, as, <<>>)

query2(filters) ==
    /\ phase = "linked"
    /\ gen2.kind = "none"
    /\ LET q == Query(filters, neos, approaches) IN
       /\ gen2' = q.gen
       /\ evaluated' = evaluated \cup q.touched
    /\ UNCHANGED <<store, ret, factory, seq, gen, lim, out, last, requests, pulls,
                   out2, last2>>

\* The consumer asks the second generator for its next item, until it ends.
NextItem2 ==
    /\ gen2.kind # "none"
    /\ gen2.state \notin {"done", "raised"}
    /\ LET st == TraversalNext(gen2, gen, neos, approaches) IN
       /\ gen2' = st.gen
       /\ out2' = IF IsNone(st.item) THEN out2 ELSE Append(out2, Val(st.item))
       /\ last2' = IF IsNone(st.item) THEN st.exc ELSE "item"
       /\ evaluated' = evaluated \cup st.touched
    /\ UNCHANGED <<store, ret, factory, seq, gen, lim, out, last, requests, pulls>>

-----------------------------------------------------------------------------
(* filters.py: limit, and itertools.islice as limit uses it *)

\* lim: whether limit was called and with which n; whether it returned an
\* islice object, and that object's stop, its count of items produced, and
\* whether it still holds its iterator.
NoLimit == [called |-> FALSE, n |-> None, islice |-> FALSE, stop |-> 0,
            cnt |-> 0, live |-> FALSE]

\* A variant of limit that tests n against None only, so that limit(it, 0)
\* is islice(it, 0).
LimitNotNone(n) ==
    IF ~IsNone(n)
    THEN [called |-> TRUE, n |-> n, islice |-> TRUE, stop |-> Val(n),
          cnt |-> 0, live |-> TRUE]
    ELSE [called |-> TRUE, n |-> n, islice |-> FALSE, stop |-> 0,
          cnt |-> 0, live |-> FALSE]

\* if n: return islice(iterator, n)
\* return iterator
Limit(n) ==
    IF ~IsNone(n) /\ Val(n) # 0
    THEN [called |-> TRUE, n |-> n, islice |-> TRUE, stop |-> Val(n),
          cnt |-> 0, live |-> TRUE]
    ELSE [called |-> TRUE, n |-> n, islice |-> FALSE, stop |-> 0,
          cnt |-> 0, live |-> FALSE]

\* What one next() on the consumer's iterator gives: the islice object and
\* the iterator afterwards, the item or the exception, the approaches that
\* filters were called on, and the number of next() calls made on gen.
Pulled(l, st, n) ==
    [lim |-> l, gen |-> st.gen, item |-> st.item, exc |-> st.exc,
     touched |-> st.touched, pulls |-> n]

\* A variant of islice that takes the next item first and tests its count
\* against stop afterwards, dropping the item taken.
IsliceNextPullFirst(l, g, ns, as, items) ==
    IF ~l.live
    THEN Pulled(l, Step(g, None, "StopIteration", {}), 0)
    ELSE LET st == IteratorNext(g, ns, as, items) IN
         IF IsNone(st.item) THEN Pulled([l EXCEPT !.live = FALSE], st, 1)
         ELSE IF l.cnt >= l.stop
         THEN Pulled([l EXCEPT !.live = FALSE],
                     Step(st.gen, None, "StopIteration", st.touched), 1)
         ELSE Pulled([l EXCEPT !.cnt = @ + 1], st, 1)

\* next() on islice(iterator, stop): once stop items were produced, or the
\* iterator ended, it raises StopIteration without touching the iterator;
\* otherwise it takes one item from the iterator and counts it.
IsliceNext(l, g, ns, as, items) ==
    IF ~l.live \/ l.cnt >= l.stop
    THEN Pulled([l EXCEPT !.live = FALSE], Step(g, None, "StopIteration", {}), 0)
    ELSE LET st == IteratorNext(g, ns, as, items) IN
         IF IsNone(st.item) THEN Pulled([l EXCEPT !.live = FALSE], st, 1)
         ELSE Pulled([l EXCEPT !.cnt = @ + 1], st, 1)

\* next() on what limit returned: the islice object, or the iterator itself.
ConsumerNext(l, g, ns, as, items) ==
    IF l.islice THEN IsliceNext(l, g, ns, as, items)
    ELSE Pulled(l, IteratorNext(g, ns, as, items), 1)

limit(n) ==
    /\ gen.kind # "none"
    /\ ~lim.called
    /\ requests = 0
    /\ lim' = Limit(n)
    /\ UNCHANGED <<second, store, ret, factory, seq, gen, out, last, requests, pulls,
                   evaluated>>

\* The consumer asks its iterator for the next item.
NextItem ==
    /\ gen.kind # "none"
    /\ requests < MaxRequests
    /\ LET r == ConsumerNext(lim, gen, neos, approaches, seq) IN
       /\ lim' = r.lim
       /\ gen' = r.gen
       /\ out' = IF IsNone(r.item) THEN out ELSE Append(out, Val(r.item))
       /\ last' = IF IsNone(r.item) THEN r.exc ELSE "item"
       /\ pulls' = pulls + r.pulls
       /\ evaluated' = evaluated \cup r.touched
    /\ requests' = requests + 1
    /\ UNCHANGED <<second, store, ret, factory, seq>>

-----------------------------------------------------------------------------
(* The store from its inputs to the lookups. *)

\* The NEOs and close approaches as extract.py hands them over: unlinked.
NeoInputs ==
    {NearEarthObject(d, n, NaN, False) : d \in Designations, n \in Names}
ApproachInputs ==
    {CloseApproach(d, 1, NaN, NaN) : d \in Designations}

NoCall == [op |-> "none", arg |-> None, value |-> None]

NoArgs ==
    [date |-> None, start_date |-> None, end_date |-> None,
     distance_min |-> None, distance_max |-> None,
     velocity_min |-> None, velocity_max |-> None,
     diameter_min |-> None, diameter_max |-> None, hazardous |-> None]

\* Nothing looked up, no iterator made, create_filters not called.
NoLookup == ret = NoCall
NoStream ==
    /\ gen = NoIterator
    /\ lim = NoLimit
    /\ out = <<>>
    /\ last = "none"
    /\ requests = 0
    /\ pulls = 0
    /\ evaluated = {}
    /\ gen2 = NoIterator
    /\ out2 = <<>>
    /\ last2 = "none"
NoFactory == args = NoArgs /\ made = None
NoStore ==
    /\ neos = <<>>
    /\ approaches = <<>>
    /\ data_map = <<>>
    /\ phase = "unlinked"

Init ==
    /\ neos \in SeqsUpTo(NeoInputs, MaxNeos)
    /\ approaches \in SeqsUpTo(ApproachInputs, MaxApproaches)
    /\ data_map = <<>>
    /\ phase = "unlinked"
    /\ seq = <<>>
    /\ NoLookup /\ NoStream /\ NoFactory

Next ==
    \/ Construct
    \/ \E d \in Designations : get_neo_by_designation(d)
    \/ \E n \in Names \cup {Some("Beta")} : get_neo_by_name(n)

Spec == Init /\ [][Next]_vars

-----------------------------------------------------------------------------
(* Querying a linked store: query, limit and the consumer. *)

\* Two NEOs of distinct designations: a named one of known diameter, and an
\* unnamed hazardous one of unknown diameter.
QueryNeos ==
    <<NearEarthObject("433", Some("Eros"), 2, False),
      NearEarthObject("2015 AB", None, NaN, True)>>

\* Close approaches of these NEOs, on day 1 or 2, at distance 1 or 2.
QueryApproachInputs ==
    {CloseApproach(d, t, x, 1) : d \in {"433", "2015 AB"}, t \in {1, 2}, x \in {1, 2}}

\* The criteria the filters of a query are made from.
QueryCriteria ==
    {[NoArgs EXCEPT !.start_date = sd, !.distance_max = dx,
                    !.diameter_min = dm, !.hazardous = hz] :
        sd \in {None, Some(2)}, dx \in {None, Some(1)},
        dm \in {None, Some(1)}, hz \in {None, Some(True), Some(False)}}

\* Filters built by hand: the base class, whose get raises, alone and after
\* a filter that may reject first.
HandBuiltFilters ==
    {<<Filter("AttributeFilter", "eq", 1)>>,
     <<Filter("DistanceFilter", "le", 1), Filter("AttributeFilter", "eq", 1)>>}

QueryFilters == {create_filters(kw) : kw \in QueryCriteria} \cup HandBuiltFilters

LimitArgs == {None} \cup {Some(k) : k \in 0..MaxLimit}

InitQuery ==
    /\ neos = QueryNeos
    /\ approaches \in SeqsUpTo(QueryApproachInputs, MaxApproaches)
    /\ data_map = <<>>
    /\ phase = "unlinked"
    /\ seq = <<>>
    /\ NoLookup /\ NoStream /\ NoFactory

NextQuery ==
    \/ Construct
    \/ \E f \in QueryFilters : query(f)
    \/ \E n \in LimitArgs : limit(n)
    \/ NextItem

SpecQuery == InitQuery /\ [][NextQuery]_vars

-----------------------------------------------------------------------------
(* Two queries on one linked store, consumed in any interleaving. *)

\* The filters of the two queries: none, filters that reject some approaches,
\* one that raises, and a date filter built with operator.sub, whose result
\* is a timedelta.
TraversalFilters ==
    {<<>>,
     create_filters([NoArgs EXCEPT !.start_date = Some(2)]),
     create_filters([NoArgs EXCEPT !.distance_max = Some(1), !.hazardous = Some(True)]),
     <<Filter("DistanceFilter", "le", 1), Filter("AttributeFilter", "eq", 1)>>,
     <<Filter("DateFilter", "sub", 1)>>}

NextTraversals ==
    \/ Construct
    \/ \E f \in TraversalFilters : query(f)
    \/ \E f \in TraversalFilters : query2(f)
    \/ NextItem
    \/ NextItem2

SpecTraversals == InitQuery /\ [][NextTraversals]_vars

-----------------------------------------------------------------------------
(* A session on one linked store: lookups, a query, limit, consumption. *)

NextSession ==
    \/ Construct
    \/ \E d \in {"433", "2015 ab"} : get_neo_by_designation(d)
    \/ \E n \in {None, Some("Eros")} : get_neo_by_name(n)
    \/ \E f \in TraversalFilters : query(f)
    \/ \E n \in LimitArgs : limit(n)
    \/ NextItem

SpecSession == InitQuery /\ [][NextSession]_vars

-----------------------------------------------------------------------------
(* limit over a plain list. *)

Items == {"a", "b"}

InitLimit ==
    /\ seq \in SeqsUpTo(Items, MaxLen)
    /\ NoStore /\ NoLookup /\ NoStream /\ NoFactory

NextLimit ==
    \/ iter
    \/ \E n \in LimitArgs : limit(n)
    \/ NextItem

SpecLimit == InitLimit /\ [][NextLimit]_vars

-----------------------------------------------------------------------------
(* create_filters over every combination of its ten criteria. *)

Criteria ==
    [date : {None, Some(1)}, start_date : {None, Some(1)},
     end_date : {None, Some(2)},
     distance_min : {None, Some(1)}, distance_max : {None, Some(2)},
     velocity_min : {None, Some(1)}, velocity_max : {None, Some(2)},
     diameter_min : {None, Some(1)}, diameter_max : {None, Some(2)},
     hazardous : {None, Some(True), Some(False)}]

InitFilters ==
    /\ args \in Criteria
    /\ made = None
    /\ seq = <<>>
    /\ NoStore /\ NoLookup /\ NoStream

NextFilters == CreateFilters

SpecFilters == InitFilters /\ [][NextFilters]_vars

-----------------------------------------------------------------------------
(* From the criteria to the results: create_filters, query, consumption. *)

\* One close approach of each of the two NEOs.
PipelineApproachInputs ==
    {CloseApproach("433", 1, 1, 1), CloseApproach("2015 AB", 2, 2, 1)}

\* Filters that hold an instance of the base class AttributeFilter.
BaseClassFilters ==
    {<<Filter("AttributeFilter", "eq", 1)>>,
     <<Filter("DistanceFilter", "le", 1), Filter("AttributeFilter", "eq", 1)>>}

InitPipeline ==
    /\ neos = QueryNeos
    /\ approaches \in SeqsUpTo(PipelineApproachInputs, MaxApproaches)
    /\ data_map = <<>>
    /\ phase = "unlinked"
    /\ seq = <<>>
    /\ args \in Criteria
    /\ made = None
    /\ NoLookup /\ NoStream

\* query(create_filters(...)): the query of the filters the factory made.
QueryMade ==
    /\ ~IsNone(made)
    /\ query(Val(made))

NextPipeline ==
    \/ Construct
    \/ CreateFilters
    \/ QueryMade
    \/ \E f \in BaseClassFilters : query(f)
    \/ NextItem

SpecPipeline == InitPipeline /\ [][NextPipeline]_vars

-----------------------------------------------------------------------------
(* Properties of the linking constructor and of the lookups (Spec). *)

Indices(ns, designation) == {i \in DOMAIN ns : ns[i].designation = designation}
Occurrences(s, x) == Cardinality({i \in DOMAIN s : s[i] = x})

\* Each approach's designation is the designation of exactly one NEO.
ResolvesUniquely ==
    \A k \in DOMAIN approaches :
        Cardinality(Indices(neos, approaches[k].designation)) = 1

\* Some approach's designation is the designation of no NEO.
HasOrphan ==
    \E k \in DOMAIN approaches : Indices(neos, approaches[k].designation) = {}

UniqueDesignations ==
    \A i, j \in DOMAIN neos : neos[i].designation = neos[j].designation => i = j

\* C1. Linking completeness: when every approach's designation is that of
\* exactly one NEO, the constructor returns, and then every approach a has a
\* NEO a.neo of its own designation, occurs exactly once in a.neo.approaches
\* and occurs in the approaches of no other NEO.
C1_LinkingCompleteness ==
    (phase # "unlinked" /\ ResolvesUniquely) =>
        /\ phase = "linked"
        /\ \A k \in DOMAIN approaches :
            /\ ~IsNone(approaches[k].neo)
            /\ Val(approaches[k].neo) \in DOMAIN neos
            /\ neos[Val(approaches[k].neo)].designation = approaches[k].designation
            /\ Occurrences(neos[Val(approaches[k].neo)].approaches, k) = 1
            /\ \A m \in DOMAIN neos :
                m # Val(approaches[k].neo) => k \notin Range(neos[m].approaches)

\* Two approaches of two different NEOs, linked, the second NEO's first.
C1_Witness ==
    /\ phase = "linked"
    /\ ResolvesUniquely
    /\ Len(neos) >= 2
    /\ Len(approaches) >= 2
    /\ approaches[1].neo = Some(2)
    /\ approaches[2].neo = Some(1)

\* C5. Lookup exactness: in a store of unique designations,
\* get_neo_by_designation(d) returns the NEO whose designation is exactly d,
\* and None when there is none; a designation that differs in letter case
\* is no match.
C5_LookupExactness ==
    (ret.op = "get_neo_by_designation" /\ UniqueDesignations) =>
        LET holders == Indices(neos, Val(ret.arg)) IN
        IF holders = {} THEN IsNone(ret.value)
        ELSE ~IsNone(ret.value) /\ holders = {Val(ret.value)}

\* "2015 AB" looked up in a store that holds "2015 ab" only: None.
C5_Witness ==
    /\ ret.op = "get_neo_by_designation"
    /\ UniqueDesignations
    /\ ret.arg = Some("2015 AB")
    /\ Indices(neos, "2015 ab") # {}
    /\ IsNone(ret.value)

\* C6. Name lookup never matches an unnamed NEO: whatever the argument of
\* get_neo_by_name, None included, the result is None or a NEO whose name is
\* present and equal to the argument.
C6_NameLookupNeverUnnamed ==
    ret.op = "get_neo_by_name" =>
        \/ IsNone(ret.value)
        \/ /\ ~IsNone(neos[Val(ret.value)].name)
           /\ neos[Val(ret.value)].name = ret.arg

\* C7. An unresolvable foreign key is fatal: when some approach's designation
\* is that of no NEO the constructor raises, and a constructor that returned
\* has left no approach without its NEO.
C7_UnresolvableIsFatal ==
    /\ (phase # "unlinked" /\ HasOrphan) => phase = "KeyError"
    /\ phase = "linked" => \A k \in DOMAIN approaches : ~IsNone(approaches[k].neo)

\* The constructor raised at the second approach, after linking the first.
C7_Witness ==
    /\ phase = "KeyError"
    /\ Len(approaches) >= 2
    /\ ~IsNone(approaches[1].neo)
    /\ Indices(neos, approaches[2].designation) = {}

-----------------------------------------------------------------------------
(* Properties of query, limit and the consumer (SpecQuery). *)

\* The position of the approach yielded last, 0 before the first.
LastYielded == IF out = <<>> THEN 0 ELSE out[Len(out)]

\* C2. Conjunctive filtering: when a query that is not limited has been
\* consumed to its end, an approach is among the results if and only if
\* every filter of the query evaluates to a true value on it.
C2_ConjunctiveFiltering ==
    (gen.kind = "query" /\ ~lim.islice /\ gen.state = "done") =>
        \A k \in DOMAIN approaches :
            k \in Range(out) <=>
                \A i \in DOMAIN gen.filters :
                    IsTruthy(FilterCall(gen.filters[i], neos, approaches[k]))

\* A query of two filters or more, consumed to its end, that yielded one
\* approach and left out another which its first filter accepts and a later
\* one rejects.
C2_Witness ==
    /\ gen.kind = "query"
    /\ ~lim.islice
    /\ gen.state = "done"
    /\ Len(gen.filters) >= 2
    /\ out # <<>>
    /\ \E k \in DOMAIN approaches :
          /\ k \notin Range(out)
          /\ IsTruthy(FilterCall(gen.filters[1], neos, approaches[k]))

\* C3. Empty-filter identity: a query without filters, not limited, yields
\* the approaches in store order, and consumed to its end it has yielded each
\* of them once.
C3_EmptyFilterIdentity ==
    (gen.kind = "query" /\ gen.filters = <<>> /\ ~lim.islice) =>
        /\ out = [k \in 1..Len(out) |-> k]
        /\ last = "StopIteration" => Len(out) = Len(approaches)

\* A query without filters over two approaches or more, consumed to its end.
C3_Witness ==
    /\ gen.kind = "query"
    /\ gen.filters = <<>>
    /\ ~lim.islice
    /\ last = "StopIteration"
    /\ Len(approaches) >= 2
    /\ Len(out) = Len(approaches)

\* C9. Query laziness: as long as the consumer has asked for nothing, no
\* filter has been called; and while the generator is suspended at a yield
\* (or not started), filters have been called only on approaches up to the
\* one yielded last.
C9_QueryLaziness ==
    gen.kind = "query" =>
        /\ requests = 0 => evaluated = {}
        /\ gen.state \in {"created", "suspended"} =>
              /\ LastYielded = gen.cursor
              /\ evaluated \subseteq 1..LastYielded

\* The first approach was yielded and filtered; a second one is untouched.
C9_Witness ==
    /\ gen.kind = "query"
    /\ gen.state = "suspended"
    /\ out = <<1>>
    /\ evaluated = {1}
    /\ Len(approaches) >= 2

\* C10. Limiter short-circuit: islice(query(F), n) asks the generator for at
\* most n items, and once it has produced n, no filter has been called on an
\* approach after the n-th one yielded, however often the consumer asks.
C10_LimiterShortCircuit ==
    (gen.kind = "query" /\ lim.islice) =>
        /\ pulls <= lim.stop
        /\ Len(out) <= lim.stop
        /\ Len(out) = lim.stop => evaluated \subseteq 1..LastYielded

\* The limit was reached before the last approach, and the consumer asked
\* for more.
C10_Witness ==
    /\ gen.kind = "query"
    /\ lim.islice
    /\ Len(out) = lim.stop
    /\ last = "StopIteration"
    /\ requests > lim.stop + 1
    /\ gen.filters # <<>>
    /\ evaluated # {}
    /\ gen.cursor < Len(approaches)

-----------------------------------------------------------------------------
(* Properties of two traversals of one store (SpecTraversals). *)

\* What a generator of query(filters) yields when nothing else runs: its
\* items up to the end of the loop or to the exception that leaves it.
RECURSIVE DrainAlone(_, _)
DrainAlone(g, acc) ==
    LET st == IteratorNext(g, neos, approaches, <<>>) IN
    IF IsNone(st.item) THEN acc ELSE DrainAlone(st.gen, Append(acc, Val(st.item)))

Alone(filters) == DrainAlone(Generator(filters), <<>>)

\* A traversal (its generator g and the items o received from it) agrees
\* with the traversal consumed alone.
AsAlone(g, o) ==
    g.kind = "query" =>
        /\ g.state = "created" => g.cursor = 0 /\ o = <<>>
        /\ Len(o) <= Len(approaches)
        /\ Len(o) <= Len(Alone(g.filters))
        /\ o = SubSeq(Alone(g.filters), 1, Len(o))
        /\ g.state \in {"done", "raised"} => o = Alone(g.filters)

\* C11. Independent traversals: each call of query starts at the first
\* approach, and however the two result sequences are consumed, each yields
\* the items, in the order, that it yields when consumed alone, and no more
\* items than there are approaches.
C11_IndependentTraversals == AsAlone(gen, out) /\ AsAlone(gen2, out2)

\* Both traversals are under way, at different approaches, and the second
\* one, made later, is ahead of the first.
C11_Witness ==
    /\ gen.state = "suspended"
    /\ gen2.state = "suspended"
    /\ gen.kind = "query"
    /\ gen2.kind = "query"
    /\ out = <<1>>
    /\ out2 = <<2>>
    /\ gen.filters # gen2.filters

-----------------------------------------------------------------------------
(* Properties of a session on a linked store (SpecSession). *)

\* C12. The store is read-only after construction: once the constructor has
\* returned, no lookup, query, limit or next() changes the list of NEOs, the
\* list of approaches and its order, an approach's neo or a NEO's approaches;
\* the store changes in one step only, the constructor's.
C12_ReadOnlyAfterConstruction ==
    [][/\ phase = "linked" => UNCHANGED <<neos, approaches, data_map, phase>>
       /\ <<neos, approaches>>' # <<neos, approaches>> =>
              phase = "unlinked" /\ phase' # "unlinked"]_vars

\* After a lookup, a query, a limit and the consumption of the results to
\* their end, every approach is still once in the list of its NEO.
C12_Witness ==
    /\ phase = "linked"
    /\ ret.op = "get_neo_by_name"
    /\ gen.kind = "query"
    /\ lim.islice
    /\ last = "StopIteration"
    /\ Len(out) >= 1
    /\ Len(approaches) >= 2
    /\ \A k \in DOMAIN approaches :
          /\ ~IsNone(approaches[k].neo)
          /\ Occurrences(neos[Val(approaches[k].neo)].approaches, k) = 1
    /\ \A n \in DOMAIN neos : Len(neos[n].approaches) <= Len(approaches)

-----------------------------------------------------------------------------
(* Properties of the filters' classes (SpecPipeline). *)

ConcreteClasses ==
    {"DateFilter", "DistanceFilter", "VelocityFilter", "DiameterFilter",
     "HazardousFilter"}

\* The query under way is the query of the filters create_filters returned.
QueryOfMade == gen.kind = "query" /\ ~IsNone(made) /\ gen.filters = Val(made)

\* C13. Unsupported criterion: calling an instance of the base class
\* AttributeFilter on an approach raises UnsupportedCriterionError, so a
\* query whose first filter is one ends in that error at the first approach;
\* every filter create_filters returns is of a subclass that overrides get,
\* and a query of these filters on a linked store never raises.
C13_UnsupportedCriterion ==
    /\ \A k \in DOMAIN approaches :
          FilterCall(Filter("AttributeFilter", "eq", 1), neos, approaches[k])
              = Raised("UnsupportedCriterionError")
    /\ (/\ gen.kind = "query"
        /\ gen.filters # <<>>
        /\ gen.filters[1].cls = "AttributeFilter"
        /\ requests = 1
        /\ approaches # <<>>) =>
            gen.state = "raised" /\ last = "UnsupportedCriterionError"
    /\ ~IsNone(made) =>
          \A i \in DOMAIN Val(made) : Val(made)[i].cls \in ConcreteClasses
    /\ QueryOfMade =>
          /\ gen.state # "raised"
          /\ last \in {"none", "item", "StopIteration"}

\* A query of two or more filters made by create_filters, consumed to its
\* end, with results.
C13_Witness ==
    /\ QueryOfMade
    /\ Len(Val(made)) >= 2
    /\ gen.state = "done"
    /\ last = "StopIteration"
    /\ evaluated # {}
    /\ Len(out) >= 1

-----------------------------------------------------------------------------
(* Properties of limit over a plain list (SpecLimit). *)

IsPrefix(s, t) == Len(s) <= Len(t) /\ s = SubSeq(t, 1, Len(s))

\* C4. Limiter boundary: limit(seq, 0) and limit(seq, None) yield seq;
\* limit(seq, k) yields the first k items of seq for 0 < k <= Len(seq) and
\* all of seq for k > Len(seq).
C4_LimiterBoundary ==
    (gen.kind = "list" /\ lim.called) =>
        /\ IsPrefix(out, seq)
        /\ last = "StopIteration" =>
              out = IF IsNone(lim.n) \/ Val(lim.n) = 0 THEN seq
                    ELSE IF Val(lim.n) <= Len(seq) THEN SubSeq(seq, 1, Val(lim.n))
                    ELSE seq

\* limit(seq, k) with 0 < k < Len(seq), consumed to its end.
C4_Witness ==
    /\ gen.kind = "list"
    /\ ~IsNone(lim.n)
    /\ Val(lim.n) > 0
    /\ Val(lim.n) < Len(seq)
    /\ last = "StopIteration"
    /\ Len(out) = Val(lim.n)

-----------------------------------------------------------------------------
(* Properties of create_filters (SpecFilters). *)

CriteriaOrder ==
    <<"date", "start_date", "end_date", "distance_min", "distance_max",
      "velocity_min", "velocity_max", "diameter_min", "diameter_max",
      "hazardous">>

ExpectedClass(c) ==
    CASE c \in {"date", "start_date", "end_date"} -> "DateFilter"
      [] c \in {"distance_min", "distance_max"} -> "DistanceFilter"
      [] c \in {"velocity_min", "velocity_max"} -> "VelocityFilter"
      [] c \in {"diameter_min", "diameter_max"} -> "DiameterFilter"
      [] c = "hazardous" -> "HazardousFilter"

ExpectedOperator(c) ==
    CASE c \in {"date", "hazardous"} -> "eq"
      [] c \in {"start_date", "distance_min", "velocity_min", "diameter_min"} -> "ge"
      [] c \in {"end_date", "distance_max", "velocity_max", "diameter_max"} -> "le"

IsPresent(c) == ~IsNone(args[c])

\* C8. Filter factory mapping: create_filters returns one filter for each
\* criterion that is not None (hazardous=False included) and none for the
\* others, each of the class and operator of its criterion and with its
\* value, in the fixed order of the criteria.
C8_FilterFactoryMapping ==
    ~IsNone(made) =>
        LET present == SelectSeq(CriteriaOrder, IsPresent) IN
        /\ Len(Val(made)) = Len(present)
        /\ \A i \in DOMAIN present :
              Val(made)[i] = Filter(ExpectedClass(present[i]),
                                    ExpectedOperator(present[i]),
                                    Val(args[present[i]]))

\* hazardous=False among other criteria, with the date absent.
C8_Witness ==
    /\ ~IsNone(made)
    /\ args.hazardous = Some(False)
    /\ IsNone(args.date)
    /\ ~IsNone(args.distance_max)
    /\ Len(Val(made)) >= 2

====
